---- MODULE Spec2Model ----
(***************************************************************************)
(* Model of the item-finder scrapers: the three single-site scrapers       *)
(* (simple_noon_scraper.py, simple_namshi_scraper.py,                      *)
(* simple_amazon_scraper.py) and the unified driver (unified_scraper.py).  *)
(*                                                                         *)
(* One behaviour is one run of one entry point:                            *)
(*   mode = "all"    unified main without a site flag -> search_all_sites  *)
(*   mode = "only"   unified main with --noon-only/--namshi-only/          *)
(*                   --amazon-only                                         *)
(*   mode = "batch"  main of a single-site scraper over a list of items    *)
(*                                                                         *)
(* Optional[float] values are modelled as <<>> (None) or <<v>>; prices are *)
(* whole numbers of AED.  A candidate element is represented by what the   *)
(* record builder makes of it (a record with a price_value, nothing        *)
(* because the text is too short, or nothing because the builder raised    *)
(* and caught an exception).                                               *)
(***************************************************************************)
EXTENDS Integers, Sequences, FiniteSets, TLC

\* ---------------------------------------------------------------- bounds
\* pages with 0..SmallMax candidates, and with Cap..Cap+Extra candidates
SmallMax == 2
Extra == 1
\* longest batch of search items
MaxItems == 2

\* ------------------------------------------------------ program constants
NoonCap == 5
NamshiCap == 10
AmazonCap == 10

Sites == <<"noon", "namshi", "amazon">>
SiteSet == {"noon", "namshi", "amazon"}
Names == {"lamp", "desk"}

\* ------------------------------------------------------- Optional values
None == <<>>
Some(v) == <<v>>

\* Python truthiness of an Optional[float]: None and 0.0 are falsy
Truthy(x) == x # None /\ x[1] # 0

Min(a, b) == IF a <= b THEN a ELSE b

Cap(s) == IF s = "noon" THEN NoonCap ELSE IF s = "namshi" THEN NamshiCap ELSE AmazonCap

SiteIndex(s) == CHOOSE k \in 1..3 : Sites[k] = s

\* ---------------------------------------------------------------- inputs
\* ceilings a run can be given: none, 0 (float("0") is accepted), 2
MaxPrices == {None, Some(0), Some(2)}

SearchItem(n, mp) == [name |-> n, max_price |-> mp]

\* what the record builder returns for a candidate element
Elem(kind, pv) == [kind |-> kind, price_value |-> pv]
Pattern == << Elem("record", Some(1)), Elem("record", Some(3)), Elem("error", None),
              Elem("record", None), Elem("record", Some(0)), Elem("short", None) >>
PatLen == Len(Pattern)

\* the elements a page holds: n elements, the pattern rotated by r
PageElems(n, r) == [k \in 1..n |-> Pattern[((k + r) % PatLen) + 1]]

PageSizes(s) == (0..SmallMax) \cup (Cap(s)..(Cap(s) + Extra))

\* batches: names are free, the ceilings follow a rotation of MaxPrices
MPSeq == << None, Some(2), Some(0) >>
ItemLists == UNION { { [k \in 1..len |-> SearchItem(nm[k], MPSeq[((k + m) % 3) + 1])] :
                         nm \in [1..len -> Names], m \in 0..2 } : len \in 1..MaxItems }

VARIABLES mode, site, items, idx, rot, pc, driver, potential_products, i, products,
          all_results, runs, slept, saved, interrupted

\* one function examined on its own (the specifications after Spec):
\* unit names it, sut is the scraper it belongs to, inp its argument, loc its
\* local variables, upc its position and res what it returned
VARIABLES unit, sut, inp, loc, upc, res

runvars == << mode, site, items, idx, rot, pc, driver, potential_products, i, products,
              all_results, runs, slept, saved, interrupted >>

unitvars == << unit, sut, inp, loc, upc, res >>

vars == << mode, site, items, idx, rot, pc, driver, potential_products, i, products,
           all_results, runs, slept, saved, interrupted, unit, sut, inp, loc, upc, res >>

\* ---------------------------------------------------------------- helpers
Put(m, k, v) == [x \in (DOMAIN m) \cup {k} |-> IF x = k THEN v ELSE m[x]]

max_price == items[idx].max_price

\* key under which the current search is stored in all_results
ResultKey == IF mode = "batch" THEN items[idx].name ELSE site

ProductInfo(k, pv) == [title |-> k, price_value |-> pv]


\* ------------------------------------------------------------ search_item
\* the candidate list left by the container selectors or by the generic div
\* scan: a selector's elements are all taken, the div scan stops at the cap
LocateCandidates(s, elems, viaSelector) ==
  IF viaSelector THEN elems ELSE SubSeq(elems, 1, Min(Len(elems), Cap(s)))

\* the slice forgotten: every located element is processed
Candidates_NoSlice(s, pp) == pp

\* potential_products[:cap]
Candidates(s, pp) == SubSeq(pp, 1, Min(Len(pp), Cap(s)))

\* the comparison turned round
KeepProduct_Reversed(mp, pv) ==
  IF Truthy(mp) /\ Truthy(pv) THEN pv[1] >= mp[1] ELSE TRUE

\* the ceiling ignored
KeepProduct_NoCeiling(mp, pv) == TRUE

\* a record of unknown price dropped when a ceiling is given
KeepProduct_KnownPriceOnly(mp, pv) ==
  IF Truthy(mp) THEN pv # None /\ pv[1] <= mp[1] ELSE TRUE

\* the budget filter of the extraction loop
KeepProduct(mp, pv) ==
  IF Truthy(mp) /\ Truthy(pv) THEN pv[1] <= mp[1] ELSE TRUE

\* one iteration of the extraction loop on candidate number k
FilterStep(prods, e, k, mp) ==
  IF e.kind = "record" /\ KeepProduct(mp, e.price_value)
  THEN Append(prods, ProductInfo(k, e.price_value))
  ELSE prods

Entry(prods, mp) == [products |-> prods, max_price |-> mp]

\* the delay taken after the last item too
DelayAfter_Always(k, n) == TRUE

\* the batch loop's test for the delay between searches
DelayAfter(k, n) == n > 1 /\ k < n

AfterSearch ==
  IF mode = "all" THEN "close"
  ELSE IF mode = "only" THEN "save"
  ELSE IF DelayAfter(idx, Len(items)) THEN "sleep" ELSE "save"

\* the entry of a source whose driver could not be set up
FailedEntry_Missing(results, s, mp) == results

FailedEntry(results, s, mp) == Put(results, s, Entry(<<>>, mp))

\* close() that leaves the browser running
CloseDriver_Noop(d, s) == d

\* close(): quit the driver if there is one
CloseDriver(d, s) == IF d[s] = "open" THEN [d EXCEPT ![s] = "closed"] ELSE d

\* ------------------------------------------------------------------ saving
WithinBudget(pv, mp) ==
  IF Truthy(mp) /\ Truthy(pv) THEN Some(pv[1] <= mp[1]) ELSE None

SaveProducts(prods, mp) ==
  [j \in 1..Len(prods) |-> [title |-> prods[j].title,
                            price_value |-> prods[j].price_value,
                            within_budget |-> WithinBudget(prods[j].price_value, mp)]]

\* save_results of a single-site scraper
SaveResults(results) ==
  [k \in DOMAIN results |-> [max_price_filter |-> results[k].max_price,
                             products |-> SaveProducts(results[k].products, results[k].max_price)]]

\* save_unified_results
SaveUnified(results) ==
  [k \in DOMAIN results |-> [max_price_filter |-> results[k].max_price,
                             product_count |-> Len(results[k].products),
                             products |-> SaveProducts(results[k].products, results[k].max_price)]]

AnyProducts(results) == \E k \in DOMAIN results : results[k].products # <<>>

\* no function is examined on its own during a run
UnitIdle ==
  /\ unit = "none"
  /\ sut = "noon"
  /\ inp = <<>>
  /\ loc = <<>>
  /\ upc = "idle"
  /\ res = <<>>

\* ------------------------------------------------------------------- Init
Init ==
  /\ UnitIdle
  /\ mode \in {"all", "only", "batch"}
  /\ site \in (IF mode = "all" THEN {"noon"} ELSE SiteSet)
  /\ items \in (IF mode = "batch" THEN ItemLists
                ELSE { << SearchItem("lamp", mp) >> : mp \in MaxPrices })
  /\ idx = 1
  /\ rot \in 0..(PatLen - 1)
  /\ pc = IF mode = "batch" THEN "setup" ELSE "import"
  /\ driver = [s \in SiteSet |-> "none"]
  /\ potential_products = <<>>
  /\ i = 0
  /\ products = <<>>
  /\ all_results = <<>>
  /\ runs = <<>>
  /\ slept = <<>>
  /\ saved = None
  /\ interrupted = FALSE

\* ---------------------------------------------------------------- actions
\* the scraper modules are imported
ImportScrapers ==
  /\ pc = "import"
  /\ pc' = "setup"
  /\ UNCHANGED << mode, site, items, idx, rot, driver, potential_products, i, products,
                  all_results, runs, slept, saved, interrupted >>

\* ImportError: search_all_sites returns {} and main exits; a site-only
\* branch prints the error
ImportFails ==
  /\ pc = "import"
  /\ pc' = "done"
  /\ UNCHANGED << mode, site, items, idx, rot, driver, potential_products, i, products,
                  all_results, runs, slept, saved, interrupted >>

\* setup_driver returns True
SetupDriver ==
  /\ pc = "setup"
  /\ driver' = [driver EXCEPT ![site] = "open"]
  /\ pc' = "get"
  /\ UNCHANGED << mode, site, items, idx, rot, potential_products, i, products,
                  all_results, runs, slept, saved, interrupted >>

\* setup_driver returns False; Amazon's can fail after the browser was
\* created (execute_script), leaving self.driver set
SetupFails(leak) ==
  /\ pc = "setup"
  /\ leak => site = "amazon"
  /\ driver' = [driver EXCEPT ![site] = IF leak THEN "open" ELSE "none"]
  /\ runs' = Put(runs, ResultKey, [status |-> "setup_failed", potential_products |-> <<>>])
  /\ all_results' = IF mode = "all" THEN FailedEntry(all_results, site, max_price)
                    ELSE all_results
  /\ pc' = "close"
  /\ UNCHANGED << mode, site, items, idx, rot, potential_products, i, products,
                  slept, saved, interrupted >>

\* driver.get and the candidate locator: the page holds n elements
LoadPage(n, viaSelector) ==
  /\ pc = "get"
  /\ viaSelector => n > 0
  /\ potential_products' = LocateCandidates(site, PageElems(n, rot), viaSelector)
  /\ runs' = Put(runs, ResultKey, [status |-> "ok", potential_products |-> potential_products'])
  /\ i' = 0
  /\ products' = <<>>
  /\ pc' = "extract"
  /\ UNCHANGED << mode, site, items, idx, rot, driver, all_results, slept, saved, interrupted >>

\* an exception reaches search_item's outer handler (page load, generic
\* scan): search_item returns [] and the caller stores it
SearchRaises ==
  /\ pc = "get"
  /\ potential_products' = <<>>
  /\ i' = 0
  /\ products' = <<>>
  /\ runs' = Put(runs, ResultKey, [status |-> "search_raised", potential_products |-> <<>>])
  /\ all_results' = Put(all_results, ResultKey, Entry(<<>>, max_price))
  /\ pc' = AfterSearch
  /\ UNCHANGED << mode, site, items, idx, rot, driver, slept, saved, interrupted >>

\* one iteration of the extraction loop
ExtractCandidate ==
  /\ pc = "extract"
  /\ i < Len(Candidates(site, potential_products))
  /\ i' = i + 1
  /\ products' = FilterStep(products, potential_products[i + 1], i + 1, max_price)
  /\ UNCHANGED << mode, site, items, idx, rot, pc, driver, potential_products,
                  all_results, runs, slept, saved, interrupted >>

\* the loop is over: search_item returns products and the caller stores them
ReturnProducts ==
  /\ pc = "extract"
  /\ i = Len(Candidates(site, potential_products))
  /\ all_results' = Put(all_results, ResultKey, Entry(products, max_price))
  /\ pc' = AfterSearch
  /\ UNCHANGED << mode, site, items, idx, rot, driver, potential_products, i, products,
                  runs, slept, saved, interrupted >>

\* scraper.close()
Close ==
  /\ pc = "close"
  /\ driver' = CloseDriver(driver, site)
  /\ pc' = IF mode = "all" THEN "sleep" ELSE "done"
  /\ UNCHANGED << mode, site, items, idx, rot, potential_products, i, products,
                  all_results, runs, slept, saved, interrupted >>

\* time.sleep after a source of search_all_sites, or between batch items
Sleep ==
  /\ pc = "sleep"
  /\ IF mode = "all"
     THEN /\ slept' = Append(slept, SiteIndex(site))
          /\ site' = IF site = "noon" THEN "namshi" ELSE "amazon"
          /\ pc' = IF site = "amazon" THEN "save" ELSE "setup"
          /\ idx' = idx
     ELSE /\ slept' = Append(slept, idx)
          /\ site' = site
          /\ idx' = IF idx < Len(items) THEN idx + 1 ELSE idx
          /\ pc' = IF idx < Len(items) THEN "get" ELSE "save"
  /\ UNCHANGED << mode, items, rot, driver, potential_products, i, products,
                  all_results, runs, saved, interrupted >>

\* printing and saving the results
Save ==
  /\ pc = "save"
  /\ saved' = IF mode = "batch"
              THEN (IF AnyProducts(all_results) THEN Some(SaveResults(all_results)) ELSE saved)
              ELSE Some(SaveUnified(all_results))
  /\ pc' = IF mode = "all" THEN "done" ELSE "close"
  /\ UNCHANGED << mode, site, items, idx, rot, driver, potential_products, i, products,
                  all_results, runs, slept, interrupted >>

\* a KeyboardInterrupt that no bare except swallows
Interrupt ==
  /\ pc \in {"import", "setup", "get", "extract", "sleep", "save"}
  /\ interrupted' = TRUE
  /\ IF mode = "all"
     THEN /\ driver' = IF pc \in {"setup", "get", "extract"}
                       THEN CloseDriver(driver, site) ELSE driver
          /\ pc' = "killed"
     ELSE IF mode = "only"
     THEN /\ driver' = driver
          /\ pc' = "killed"
     ELSE /\ driver' = CloseDriver(driver, site)
          /\ pc' = "done"
  /\ UNCHANGED << mode, site, items, idx, rot, potential_products, i, products,
                  all_results, runs, slept, saved >>

Next ==
  \/ ImportScrapers /\ UNCHANGED unitvars
  \/ ImportFails /\ UNCHANGED unitvars
  \/ SetupDriver /\ UNCHANGED unitvars
  \/ (\E leak \in BOOLEAN : SetupFails(leak)) /\ UNCHANGED unitvars
  \/ (\E n \in PageSizes(site), viaSelector \in BOOLEAN : LoadPage(n, viaSelector))
       /\ UNCHANGED unitvars
  \/ SearchRaises /\ UNCHANGED unitvars
  \/ ExtractCandidate /\ UNCHANGED unitvars
  \/ ReturnProducts /\ UNCHANGED unitvars
  \/ Close /\ UNCHANGED unitvars
  \/ Sleep /\ UNCHANGED unitvars
  \/ Save /\ UNCHANGED unitvars
  \/ Interrupt /\ UNCHANGED unitvars

Spec == Init /\ [][Next]_vars



\* the run variables while a single function is examined
RunIdle ==
  /\ mode = "none"
  /\ site = "noon"
  /\ items = <<>>
  /\ idx = 1
  /\ rot = 0
  /\ pc = "idle"
  /\ driver = [s \in SiteSet |-> "none"]
  /\ potential_products = <<>>
  /\ i = 0
  /\ products = <<>>
  /\ all_results = <<>>
  /\ runs = <<>>
  /\ slept = <<>>
  /\ saved = None
  /\ interrupted = FALSE

\* =================================================== the candidate locator
\* (the container selectors and the generic div scan of search_item)

\* most elements one container selector returns
MaxHits == 2

\* how many container selectors each scraper declares
NSel == [noon |-> 6, namshi |-> 6, amazon |-> 5]

\* an element of the page as the locator sees it: the length of its stripped
\* text, the keywords the lowered text contains, whether it holds a digit,
\* and whether reading its text raises
PageElem(n, w, d, st) == [len |-> n, words |-> w, digit |-> d, stale |-> st]
LocElems == { PageElem(0, {}, FALSE, FALSE),
              PageElem(40, {"aed"}, TRUE, FALSE),
              PageElem(120, {"lamp"}, TRUE, FALSE),
              PageElem(1200, {"aed", "delivery"}, TRUE, FALSE),
              PageElem(0, {}, FALSE, TRUE) }

\* what find_elements gives for one container selector: it raises, or a
\* list of elements
SelResults ==
  { [raises |-> TRUE, elems |-> <<>>] } \cup
  { [raises |-> FALSE, elems |-> es] : es \in UNION { [1..n -> LocElems] : n \in 0..MaxHits } }

\* the text test applied to the elements of a container selector (Namshi
\* applies none)
SelPlausible(s, e, term) ==
  IF s = "noon"
  THEN /\ e.len > 30 /\ e.len < 1000
       /\ e.words \cap {"iphone", "samsung", "apple", "gb", "pro", "max", "plus",
                        "aed", "price", "rating", "review"} # {}
  ELSE IF s = "amazon"
  THEN e.len > 30 /\ e.words \cap {"aed", "price", term} # {}
  ELSE TRUE

\* the text test of the generic div scan
DivPlausible(s, e, term) ==
  IF s = "noon"
  THEN 30 < e.len /\ e.len < 500 /\ e.words \cap {term, "iphone", "samsung", "aed"} # {}
  ELSE IF s = "namshi"
  THEN /\ 50 < e.len /\ e.len < 800
       /\ e.words \cap {"aed", "delivery", "free", "discount", term} # {}
       /\ e.digit
  ELSE /\ 100 < e.len /\ e.len < 1500
       /\ e.words \cap {"aed", "delivery", "prime", "add to cart", term} # {}
       /\ e.digit

\* one iteration of the selector loop: the new potential_products, each
\* element with the selector it came from, and whether the loop breaks.
\* Amazon: elements whose text raises are skipped, the valid ones replace
\* potential_products.  Namshi: the first selector with any element is
\* taken as it is.  Noon: plausible elements are appended one by one; a text
\* that raises ends the iteration through the except (continue), keeping
\* what was appended
SelectorStep(s, pp, r, k, term) ==
  LET tag(es) == [j \in 1..Len(es) |-> [elem |-> es[j], from |-> k]]
      valid == SelectSeq(r.elems, LAMBDA e : ~e.stale /\ SelPlausible("amazon", e, term))
      stale == { j \in 1..Len(r.elems) : r.elems[j].stale }
      seen == SubSeq(r.elems, 1, IF stale = {} THEN Len(r.elems)
                                 ELSE (CHOOSE j \in stale : \A h \in stale : j <= h) - 1)
      app == pp \o tag(SelectSeq(seen, LAMBDA e : SelPlausible("noon", e, term)))
  IN IF r.raises THEN [pp |-> pp, brk |-> FALSE]
     ELSE IF s = "amazon"
     THEN IF valid = <<>> THEN [pp |-> pp, brk |-> FALSE]
          ELSE [pp |-> tag(valid), brk |-> TRUE]
     ELSE IF s = "namshi"
     THEN IF r.elems = <<>> THEN [pp |-> pp, brk |-> FALSE]
          ELSE [pp |-> tag(r.elems), brk |-> TRUE]
     ELSE [pp |-> app, brk |-> stale = {} /\ app # <<>>]

\* the generic scan: divs that pass the test, up to the cap (0: no selector)
RECURSIVE GenericScan(_, _, _, _)
GenericScan(s, divs, term, acc) ==
  IF divs = <<>> \/ Len(acc) >= Cap(s) THEN acc
  ELSE LET d == Head(divs)
       IN GenericScan(s, Tail(divs), term,
                      IF ~d.stale /\ DivPlausible(s, d, term)
                      THEN Append(acc, [elem |-> d, from |-> 0]) ELSE acc)

DivPattern == << PageElem(120, {"lamp"}, TRUE, FALSE), PageElem(0, {}, FALSE, FALSE),
                 PageElem(40, {"aed"}, TRUE, FALSE), PageElem(0, {}, FALSE, TRUE),
                 PageElem(400, {"aed", "delivery"}, TRUE, FALSE) >>
Divs(n, r) == [j \in 1..n |-> DivPattern[((j + r) % Len(DivPattern)) + 1]]

\* what a selector's result is in the terms of the content plausibility
\* filter: for Namshi, whose selector loop has no filter, any text of some
\* length holding some keyword counts as plausible
Classify(s, r, term) ==
  IF r.raises THEN "raise"
  ELSE IF r.elems = <<>> THEN "none"
  ELSE IF \E j \in 1..Len(r.elems) :
            /\ ~r.elems[j].stale
            /\ IF s = "namshi" THEN r.elems[j].len > 0 /\ r.elems[j].words # {}
               ELSE SelPlausible(s, r.elems[j], term)
       THEN "plausible" ELSE "implausible"

LocateInit ==
  /\ RunIdle
  /\ unit = "locate"
  /\ sut \in SiteSet
  /\ inp = "lamp"
  /\ loc = [k |-> 1, potential_products |-> <<>>, hist |-> <<>>, accepted |-> 0,
            generic |-> FALSE]
  /\ upc = "selectors"
  /\ res = <<>>

\* one iteration of "for selector in product_selectors"
TrySelector(r) ==
  /\ unit = "locate" /\ upc = "selectors"
  /\ LET st == SelectorStep(sut, loc.potential_products, r, loc.k, inp)
     IN /\ loc' = [loc EXCEPT !.potential_products = st.pp,
                              !.hist = Append(@, Classify(sut, r, inp)),
                              !.accepted = IF st.brk THEN loc.k ELSE 0,
                              !.k = IF st.brk THEN loc.k ELSE loc.k + 1]
        /\ upc' = IF st.brk \/ loc.k = NSel[sut] THEN "fallback" ELSE "selectors"
  /\ UNCHANGED << unit, sut, inp, res >>

\* "if not potential_products": the generic scan over the n divs of the page
RunGenericScan(n, r) ==
  /\ unit = "locate" /\ upc = "fallback"
  /\ loc.potential_products = <<>>
  /\ loc' = [loc EXCEPT !.potential_products = GenericScan(sut, Divs(n, r), inp, <<>>),
                        !.generic = TRUE]
  /\ res' = [raised |-> FALSE, potential_products |-> loc'.potential_products]
  /\ upc' = "done"
  /\ UNCHANGED << unit, sut, inp >>

\* find_elements(By.TAG_NAME, "div") raises: search_item returns []
GenericScanRaises ==
  /\ unit = "locate" /\ upc = "fallback"
  /\ loc.potential_products = <<>>
  /\ loc' = [loc EXCEPT !.generic = TRUE]
  /\ res' = [raised |-> TRUE, potential_products |-> <<>>]
  /\ upc' = "done"
  /\ UNCHANGED << unit, sut, inp >>

\* potential_products is not empty: no generic scan
SkipGenericScan ==
  /\ unit = "locate" /\ upc = "fallback"
  /\ loc.potential_products # <<>>
  /\ res' = [raised |-> FALSE, potential_products |-> loc.potential_products]
  /\ upc' = "done"
  /\ UNCHANGED << unit, sut, inp, loc >>

LocateNext ==
  \/ (\E r \in SelResults : TrySelector(r)) /\ UNCHANGED runvars
  \/ (\E n \in PageSizes(sut), r \in 0..(Len(DivPattern) - 1) : RunGenericScan(n, r))
       /\ UNCHANGED runvars
  \/ GenericScanRaises /\ UNCHANGED runvars
  \/ SkipGenericScan /\ UNCHANGED runvars

SpecLocate == LocateInit /\ [][LocateNext]_vars

\* ===================================================== the record builder
\* (extract_simple_product_info, extract_namshi_product_info,
\*  extract_amazon_product_info: the brand and title cascades, the title
\*  fallbacks, the price and the return)

\* most lines of full_text the title fallback looks at
MaxLines == 2

\* how many selectors the cascade of a field declares
NField(s, field) ==
  IF field = "brand" THEN 3
  ELSE IF field = "title" THEN (IF s = "noon" THEN 5 ELSE 7)
  ELSE IF s = "namshi" THEN 5 ELSE 6

\* the length a brand or a title has to exceed
MinLen(s, field) ==
  IF field = "brand" THEN 1 ELSE IF s = "namshi" THEN 5 ELSE 10

\* a string a field holds: where it came from (the text or the title
\* attribute of the element of selector k, line k of full_text, the brand,
\* the brand put before the title, the "Unknown Product" literal) and its length
Val(src, k, n) == [src |-> src, k |-> k, len |-> n]
\* Python truth of a field: neither None nor the empty string
Filled(v) == v # None /\ v[1].len > 0

\* what one find_element attempt of a cascade gives: it raises, or the
\* element is found but reading it raises, or it is found with a stripped
\* text of some length and a title attribute (None when absent)
Attempts ==
  { [kind |-> kd, text |-> 0, attr |-> None] : kd \in {"raises", "textraises"} } \cup
  { [kind |-> "found", text |-> t, attr |-> a] :
      t \in {0, 1, 4, 8, 20}, a \in {None, Some(4), Some(20)} }

\* "title_element.text.strip() or title_element.get_attribute("title")" in
\* the Noon and Namshi title cascades, the stripped text everywhere else
ReadValue(s, field, o, k) ==
  IF field = "title" /\ s # "amazon" /\ o.text = 0
  THEN IF o.attr = None THEN None ELSE Some(Val("attr", k, o.attr[1]))
  ELSE Some(Val("text", k, o.text))

\* a cascade that breaks on any non-empty value, without the length check
CascadeStep_AnyValue(s, field, cur, o, k) ==
  IF o.kind # "found" THEN [val |-> cur, brk |-> FALSE]
  ELSE LET v == ReadValue(s, field, o, k)
       IN [val |-> v, brk |-> Filled(v)]

\* a cascade that an attempt's exception ends
CascadeStep_StopOnRaise(s, field, cur, o, k) ==
  IF o.kind # "found" THEN [val |-> cur, brk |-> TRUE]
  ELSE LET v == ReadValue(s, field, o, k)
       IN [val |-> v, brk |-> Filled(v) /\ v[1].len > MinLen(s, field)]

\* one iteration of a cascade: the variable after it and whether it breaks;
\* an attempt that raises leaves the variable as it was (except: continue)
CascadeStep(s, field, cur, o, k) ==
  IF o.kind # "found" THEN [val |-> cur, brk |-> FALSE]
  ELSE LET v == ReadValue(s, field, o, k)
       IN [val |-> v, brk |-> Filled(v) /\ v[1].len > MinLen(s, field)]

\* a stripped non-empty line of full_text: its length, whether it is only
\* digits and separators, whether it holds one of the scraper's excluded words
Lines ==
  { [len |-> n, digits |-> FALSE, excluded |-> FALSE] : n \in {4, 8, 20, 300} } \cup
  { [len |-> 20, digits |-> TRUE, excluded |-> FALSE],
    [len |-> 20, digits |-> FALSE, excluded |-> TRUE] }

LineQualifies(s, l) ==
  /\ ~l.digits /\ ~l.excluded
  /\ IF s = "noon" THEN l.len > 10
     ELSE IF s = "namshi" THEN l.len > 5 /\ l.len < 100
     ELSE l.len > 10 /\ l.len < 200

\* "if not title": the first qualifying line, the title unchanged otherwise
LineFallback(s, title, lines) ==
  IF Filled(title) THEN title
  ELSE IF \E j \in 1..Len(lines) : LineQualifies(s, lines[j])
  THEN LET j == CHOOSE j \in 1..Len(lines) :
                  /\ LineQualifies(s, lines[j])
                  /\ \A h \in 1..(j - 1) : ~LineQualifies(s, lines[h])
       IN Some(Val("line", j, lines[j].len))
  ELSE title

\* Namshi puts the brand before a title that does not hold it and uses the
\* brand alone for a missing title; then "Unknown Product" (15 characters)
Named(s, brand, title, held) ==
  IF s = "namshi" /\ Filled(brand) /\ Filled(title) /\ ~held
  THEN Some(Val("brand+" \o title[1].src, title[1].k, brand[1].len + 1 + title[1].len))
  ELSE IF s = "namshi" /\ ~Filled(title) /\ Filled(brand)
  THEN Some(Val("brand", brand[1].k, brand[1].len))
  ELSE IF ~Filled(title) THEN Some(Val("unknown", 0, 15))
  ELSE title

\* "if len(title) > max: title = title[:max] + '...'"
Truncate(s, title) ==
  LET max == IF s = "amazon" THEN 150 ELSE 100
  IN IF title[1].len > max THEN Some([title[1] EXCEPT !.len = max + 3]) ELSE title

\* what an attempt is in the terms of a cascade: a raise, a text that is
\* non-empty and long enough (for a price: that passes the number test), a
\* title attribute that stands in for an empty text and is long enough, or
\* nothing usable
Class(s, field, o) ==
  IF o.kind # "found" THEN "raise"
  ELSE IF field = "price" THEN (IF o.valid THEN "text" ELSE "none")
  ELSE IF o.text > MinLen(s, field) THEN "text"
  ELSE IF /\ field = "title" /\ s # "amazon" /\ o.text = 0
          /\ o.attr # None /\ o.attr[1] > MinLen(s, field)
  THEN "attr" ELSE "none"

\* a price as the builder holds it: the price string ("Price not available"
\* or "AED" and a number) and the numeric value that goes with it
NoPrice == [price |-> "Price not available", price_value |-> None]

\* what one attempt of the price cascade gives: it raises, or the element's
\* text fails the number test, or it passes and has a numeric value (on Noon
\* the test lets through texts extract_numeric_price cannot read)
PriceAttempts(s) ==
  { [kind |-> kd, valid |-> FALSE, value |-> None] : kd \in {"raises", "found"} } \cup
  { [kind |-> "found", valid |-> TRUE, value |-> v] :
      v \in {Some(1), Some(2)} \cup (IF s = "noon" THEN {None} ELSE {}) }

\* one iteration of the price cascade
PriceStep(cur, o) ==
  IF o.kind = "found" /\ o.valid
  THEN [val |-> [price |-> "AED", price_value |-> o.value], brk |-> TRUE]
  ELSE [val |-> cur, brk |-> FALSE]

BuildInit ==
  /\ RunIdle
  /\ unit = "build"
  /\ sut \in SiteSet
  /\ inp = "lamp"
  /\ loc = [text |-> 0, brand |-> None, title |-> None, price |-> NoPrice,
            k |-> 1, broke |-> FALSE, hist |-> <<>>]
  /\ upc = "text"
  /\ res = <<>>

\* the length full_text has to reach
MinText_SameForAll(s) == 10

MinText(s) == IF s = "amazon" THEN 20 ELSE 10

\* what reading the candidate's text gives: it raises, or a stripped text of
\* some length, taken around the scraper's minimum
FullTexts(s) ==
  { [raises |-> TRUE, len |-> 0] } \cup
  { [raises |-> FALSE, len |-> n] : n \in IF s = "amazon" THEN {0, 10, 19, 20} ELSE {0, 9, 10} }

\* "full_text = element.text.strip()" and the minimum length test, which
\* returns None; a raise goes to the outer handler, which returns None too
ReadFullText(o) ==
  /\ unit = "build" /\ upc = "text"
  /\ loc' = [loc EXCEPT !.text = o.len]
  /\ IF ~o.raises /\ ~(o.len < MinText(sut))
     THEN /\ upc' = IF sut = "namshi" THEN "brand" ELSE "title"
          /\ res' = res
     ELSE /\ upc' = "done"
          /\ res' = [kind |-> "none", why |-> IF o.raises THEN "raises" ELSE "short"]
  /\ UNCHANGED << unit, sut, inp >>

\* the attempts of the cascade being run, this one included
Attempted(h, k, c) == IF k = 1 THEN << c >> ELSE Append(h, c)

\* one iteration of "for selector in brand_selectors / title_selectors"
TryField(o) ==
  /\ unit = "build" /\ upc \in {"brand", "title"}
  /\ LET st == CascadeStep(sut, upc, loc[upc], o, loc.k)
         last == st.brk \/ loc.k = NField(sut, upc)
     IN /\ loc' = [loc EXCEPT ![upc] = st.val,
                              !.hist = Attempted(@, loc.k, Class(sut, upc, o)),
                              !.broke = st.brk,
                              !.k = IF upc = "brand" /\ last THEN 1
                                    ELSE IF st.brk THEN loc.k ELSE loc.k + 1]
        /\ upc' = IF ~last THEN upc ELSE IF upc = "brand" THEN "title" ELSE "lines"
  /\ UNCHANGED << unit, sut, inp, res >>

\* the title fallbacks, the cleaning and the truncation; held says whether
\* the title holds the brand
FinishTitle(lines, held) ==
  /\ unit = "build" /\ upc = "lines"
  /\ loc' = [loc EXCEPT !.title =
               Truncate(sut, Named(sut, loc.brand, LineFallback(sut, loc.title, lines), held)),
                        !.k = 1]
  /\ upc' = "price"
  /\ UNCHANGED << unit, sut, inp, res >>

\* one iteration of "for selector in price_selectors"
TryPrice(o) ==
  /\ unit = "build" /\ upc = "price"
  /\ LET st == PriceStep(loc.price, o)
     IN /\ loc' = [loc EXCEPT !.price = st.val,
                              !.hist = Attempted(@, loc.k, Class(sut, "price", o)),
                              !.broke = st.brk,
                              !.k = IF st.brk THEN loc.k ELSE loc.k + 1]
        /\ upc' = IF st.brk \/ loc.k = NField(sut, "price") THEN "pricetext" ELSE "price"
  /\ UNCHANGED << unit, sut, inp, res >>

\* "if price == 'Price not available'": how the free-text price fallbacks end
PriceFallback(p) ==
  /\ unit = "build" /\ upc = "pricetext"
  /\ loc' = [loc EXCEPT !.price = IF loc.price = NoPrice THEN p ELSE @]
  /\ upc' = "rest"
  /\ UNCHANGED << unit, sut, inp, res >>

\* the remaining fields and "return ProductInfo(...)"; discount says whether
\* Namshi found an old price or a discount tag, which it puts after the price
ReturnRecord(discount) ==
  /\ unit = "build" /\ upc = "rest"
  /\ res' = [kind |-> "record", title |-> loc.title,
             price |-> [text |-> loc.price.price, suffix |-> sut = "namshi" /\ discount],
             price_value |-> loc.price.price_value]
  /\ upc' = "done"
  /\ UNCHANGED << unit, sut, inp, loc >>

\* Noon reads element.tag_name outside any inner try: a raise there goes to
\* the outer handler, which returns None
ElementRaises ==
  /\ unit = "build" /\ upc = "rest" /\ sut = "noon"
  /\ res' = [kind |-> "none", why |-> "raises"]
  /\ upc' = "done"
  /\ UNCHANGED << unit, sut, inp, loc >>

BuildNext ==
  \/ (\E o \in FullTexts(sut) : ReadFullText(o)) /\ UNCHANGED runvars
  \/ (\E o \in Attempts : TryField(o)) /\ UNCHANGED runvars
  \/ (\E lines \in UNION { [1..n -> Lines] : n \in 0..MaxLines }, held \in BOOLEAN :
        FinishTitle(lines, held)) /\ UNCHANGED runvars
  \/ (\E o \in PriceAttempts(sut) : TryPrice(o)) /\ UNCHANGED runvars
  \/ (\E p \in {NoPrice} \cup { [price |-> "AED", price_value |-> Some(v)] : v \in {1, 2} } :
        PriceFallback(p)) /\ UNCHANGED runvars
  \/ (\E discount \in BOOLEAN : ReturnRecord(discount)) /\ UNCHANGED runvars
  \/ ElementRaises /\ UNCHANGED runvars

SpecBuild == BuildInit /\ [][BuildNext]_vars

\* ============================================================ the record's url
\* (the link cascade of the three builders and Noon's look at the element itself)

\* how many link selectors each scraper declares
NLink == [noon |-> 4, namshi |-> 3, amazon |-> 4]

\* an href as the code looks at it: how it starts ("/", "http" or otherwise)
\* and whether it holds the text the scraper looks for ("/buy/" or "/uae-en/"
\* for Namshi, "/dp/" for Amazon, "/p/" for Noon's look at the element itself)
Hrefs == { [form |-> f, marked |-> m] : f \in {"path", "http", "other"}, m \in BOOLEAN }

\* what one link attempt gives: find_element raises, or an element whose
\* href attribute is missing or empty (None), or an element with an href
LinkAttempts ==
  { [kind |-> "raises", href |-> None], [kind |-> "found", href |-> None] } \cup
  { [kind |-> "found", href |-> Some(h)] : h \in Hrefs }

\* a url: the search url made from search_term, or the href found by link
\* strategy k (0: the element itself), with the site's host put before it or not
SearchUrl == [base |-> "search", k |-> 0, host |-> FALSE, form |-> "http"]
LinkUrl(k, h, host) == [base |-> "href", k |-> k, host |-> host, form |-> h.form]

\* one iteration of "for selector in link_selectors": an href that passes
\* the scraper's test ends the loop, whether or not it changed the url
LinkStep(s, url, o, k) ==
  IF o.kind = "found" /\ o.href # None /\ (s = "noon" \/ o.href[1].marked)
  THEN [url |-> IF o.href[1].form = "path" THEN LinkUrl(k, o.href[1], TRUE)
                ELSE IF o.href[1].form = "http" THEN LinkUrl(k, o.href[1], FALSE)
                ELSE url,
        brk |-> TRUE]
  ELSE [url |-> url, brk |-> FALSE]

\* Noon, "if the element itself is a link": the url is still the search url,
\* the element is an <a> and its href holds "/p/"
SelfLink(s, url, isLink, href) ==
  IF s = "noon" /\ url = SearchUrl /\ isLink /\ href # None /\ href[1].marked
  THEN LinkUrl(0, href[1], href[1].form = "path")
  ELSE url

LinkInit ==
  /\ RunIdle
  /\ unit = "link"
  /\ sut \in SiteSet
  /\ inp = "lamp"
  /\ loc = [k |-> 1, url |-> SearchUrl, hist |-> <<>>]
  /\ upc = "links"
  /\ res = <<>>

TryLink(o) ==
  /\ unit = "link" /\ upc = "links"
  /\ LET st == LinkStep(sut, loc.url, o, loc.k)
     IN /\ loc' = [loc EXCEPT !.url = st.url, !.hist = Append(@, o),
                              !.k = IF st.brk THEN @ ELSE @ + 1]
        /\ upc' = IF st.brk \/ loc.k = NLink[sut] THEN "self" ELSE "links"
  /\ UNCHANGED << unit, sut, inp, res >>

\* the url of the record that is returned; Noon looks at the element itself first
ReturnUrl(isLink, href) ==
  /\ unit = "link" /\ upc = "self"
  /\ sut # "noon" => (~isLink /\ href = None)
  /\ res' = [url |-> SelfLink(sut, loc.url, isLink, href), isLink |-> isLink, href |-> href]
  /\ upc' = "done"
  /\ UNCHANGED << unit, sut, inp, loc >>

LinkNext ==
  \/ (\E o \in LinkAttempts : TryLink(o)) /\ UNCHANGED runvars
  \/ (\E isLink \in BOOLEAN, href \in {None} \cup { Some(h) : h \in Hrefs } :
        ReturnUrl(isLink, href)) /\ UNCHANGED runvars

SpecLink == LinkInit /\ [][LinkNext]_vars

\* ================================================================ strings
\* a string is the sequence of its characters, each a one-character string;
\* the two letters of the Arabic currency sign are written "dal" and "alef"

DigitVal == ("0" :> 0) @@ ("1" :> 1) @@ ("2" :> 2) @@ ("3" :> 3) @@ ("4" :> 4) @@
            ("5" :> 5) @@ ("6" :> 6) @@ ("7" :> 7) @@ ("8" :> 8) @@ ("9" :> 9)
\* \d
IsDigit(c) == c \in DOMAIN DigitVal
\* \s
IsSpace(c) == c \in {" ", "\n"}
\* \w: letters and digits
IsWord(c) == c # "" /\ ~IsSpace(c) /\ c \notin {".", ",", "-", "+", "#", "%"}
\* str.lower() on the letters used here
Lower(c) == IF c = "A" THEN "a" ELSE IF c = "E" THEN "e" ELSE IF c = "D" THEN "d"
            ELSE IF c = "L" THEN "l" ELSE c

\* the character at position n, "" outside the string
At(t, n) == IF n \in 1..Len(t) THEN t[n] ELSE ""

\* str.replace(c, '')
Without(t, c) == SelectSeq(t, LAMBDA x : x # c)

\* str.strip()
Strip(t) ==
  LET keep == { j \in 1..Len(t) : ~IsSpace(t[j]) }
  IN IF keep = {} THEN <<>>
     ELSE SubSeq(t, CHOOSE j \in keep : \A h \in keep : j <= h,
                    CHOOSE j \in keep : \A h \in keep : h <= j)

RECURSIVE Pow10(_)
Pow10(n) == IF n = 0 THEN 1 ELSE 10 * Pow10(n - 1)

\* int() of a string of digits
RECURSIVE DigitsToInt(_)
DigitsToInt(t) ==
  IF t = <<>> THEN 0 ELSE 10 * DigitsToInt(SubSeq(t, 1, Len(t) - 1)) + DigitVal[t[Len(t)]]

\* str.isdigit() of a non-empty string
AllDigits(t) == \A j \in 1..Len(t) : IsDigit(t[j])

\* a > n for a number a = (-1)^neg * mant / 10^scale and a natural n
Exceeds(a, n) == ~a.neg /\ a.mant > n * Pow10(a.scale)

\* float() of a string made of digits, ".", ",", signs, blanks and letters
\* that spell none of float's words (no exponent, inf, nan or underscore):
\* blanks around are dropped, a sign may lead, then digits with at most one
\* point and at least one digit; None stands for ValueError
Float(t) ==
  LET u == Strip(t)
      body == IF u # <<>> /\ Head(u) \in {"-", "+"} THEN Tail(u) ELSE u
      digits == Without(body, ".")
      points == { j \in 1..Len(body) : body[j] = "." }
  IN IF AllDigits(digits) /\ digits # <<>> /\ Cardinality(points) <= 1
     THEN Some([neg |-> u # <<>> /\ Head(u) = "-",
                mant |-> DigitsToInt(digits),
                scale |-> IF points = {} THEN 0
                          ELSE Len(body) - (CHOOSE j \in points : TRUE)])
     ELSE None

\* extract_numeric_price without the removal of the commas
extract_numeric_price_KeepCommas(price_str) ==
  Float(SelectSeq(price_str, LAMBDA c : IsDigit(c) \/ c \in {".", ","}))

\* extract_numeric_price: re.sub(r'[^\d.,]', '', price_str), the commas
\* removed, float(); its ValueError is caught and gives None
extract_numeric_price(price_str) ==
  Float(Without(SelectSeq(price_str, LAMBDA c : IsDigit(c) \/ c \in {".", ","}), ","))

\* ======================================================== the title cleaning
\* ("Clean title" of the three builders, on the characters of a title)

\* longest run of blanks between two words of a title
MaxRun == 2

\* re.sub(r'\s+', ' ', title): every run of whitespace becomes one blank
Collapse(title) ==
  LET first == SelectSeq([j \in 1..Len(title) |-> j],
                         LAMBDA j : ~IsSpace(title[j]) \/ j = 1 \/ ~IsSpace(title[j - 1]))
  IN [n \in 1..Len(first) |-> IF IsSpace(title[first[n]]) THEN " " ELSE title[first[n]]]

\* the cleaning with the runs of whitespace left in
NormalizeTitle_RunsKept(s, title) ==
  LET t == Strip(title)
      max == IF s = "amazon" THEN 150 ELSE 100
  IN IF Len(t) > max THEN SubSeq(t, 1, max) \o << ".", ".", "." >> ELSE t

\* title = re.sub(r'\s+', ' ', title).strip(); if len(title) > max:
\* title = title[:max] + "..."
NormalizeTitle(s, title) ==
  LET t == Strip(Collapse(title))
      max == IF s = "amazon" THEN 150 ELSE 100
  IN IF Len(t) > max THEN SubSeq(t, 1, max) \o << ".", ".", "." >> ELSE t

\* the titles examined: n letters in words of 10, a run of whitespace between
\* the words, with or without whitespace around; cleaned, they are 5, 100,
\* 101, 150, 151 and 164 characters long
TitleTexts ==
  LET gaps == { [j \in 1..n |-> " "] : n \in 1..MaxRun } \cup { << "\n", " " >> }
      word(n) == [j \in 1..n |-> IF j % 2 = 1 THEN "L" ELSE "p"]
      text[n \in 0..150] ==
        [run \in gaps |-> IF n <= 10 THEN word(n) ELSE text[n - 10][run] \o run \o word(10)]
  IN { pad \o text[n][run] \o pad :
         n \in {5, 91, 92, 137, 138, 150}, run \in gaps, pad \in { <<>>, << " ", "\n" >> } }

TitleInit ==
  /\ RunIdle
  /\ unit = "title"
  /\ sut \in SiteSet
  /\ inp \in TitleTexts
  /\ loc = <<>>
  /\ upc = "clean"
  /\ res = <<>>

CleanTitle ==
  /\ unit = "title" /\ upc = "clean"
  /\ res' = NormalizeTitle(sut, inp)
  /\ upc' = "done"
  /\ UNCHANGED << unit, sut, inp, loc >>

TitleNext == CleanTitle /\ UNCHANGED runvars

SpecTitle == TitleInit /\ [][TitleNext]_vars

\* ================================================= the free-text price fallback
\* (the currency patterns and the stand-alone numbers of the Noon and Namshi
\*  builders, the screen-reader texts of the Amazon builder)

\* most blanks between a number and the currency marker in a text
MaxGap == 1

\* (?:aed|<dal>\.<alef>) at position n, matched without regard to case; both
\* markers are 3 characters long
MarkerAt(t, n) ==
  \E mk \in { << "a", "e", "d" >>, << "dal", ".", "alef" >> } :
    \A j \in 1..3 : Lower(At(t, n + j - 1)) = mk[j]

\* \s*: the position after the blanks from n on
RECURSIVE SkipSpaces(_, _)
SkipSpaces(t, n) == IF IsSpace(At(t, n)) THEN SkipSpaces(t, n + 1) ELSE n

\* how many digits follow from n on
RECURSIVE DigitRun(_, _)
DigitRun(t, n) == IF IsDigit(At(t, n)) THEN 1 + DigitRun(t, n + 1) ELSE 0

\* (?:,\d{3})*: how many comma groups follow from n on
RECURSIVE GroupRun(_, _)
GroupRun(t, n) ==
  IF At(t, n) = "," /\ DigitRun(t, n + 1) >= 3 THEN 1 + GroupRun(t, n + 4) ELSE 0

\* \b between positions n - 1 and n
Boundary(t, n) == IsWord(At(t, n - 1)) # IsWord(At(t, n))

\* the ways a number part can match from n on, << digits, groups, fraction >>;
\* a number part sh is \d{mind,maxd}, then (?:,\d{3})* if groups, then
\* (?:\.\d{2})? if frac
Alts(t, n, sh) ==
  UNION { UNION { { << d, g, f >> :
                      f \in {0} \cup (IF /\ sh.frac /\ At(t, n + d + 4 * g) = "."
                                         /\ DigitRun(t, n + d + 4 * g + 1) >= 2
                                      THEN {1} ELSE {}) } :
                  g \in 0..(IF sh.groups THEN GroupRun(t, n + d) ELSE 0) } :
          d \in sh.mind..Min(sh.maxd, DigitRun(t, n)) }
\* where the number part ends (the position after it)
AltEnd(n, a) == n + a[1] + 4 * a[2] + 3 * a[3]
\* the way the matcher finds first: greedy, the last choice undone first
FirstAlt(S) ==
  CHOOSE a \in S : \A b \in S \ {a} :
    \/ a[1] > b[1]
    \/ a[1] = b[1] /\ a[2] > b[2]
    \/ a[1] = b[1] /\ a[2] = b[2] /\ a[3] > b[3]

\* the currency patterns in their order: "before" is (number)\s*marker,
\* "after" is marker\s*(number), "ahead" is \b(number)\b(?=\s*marker)
PricePatterns(s) ==
  LET maxd == IF s = "noon" THEN 3 ELSE 4
      sh(frac) == [mind |-> 1, maxd |-> maxd, groups |-> s = "noon", frac |-> frac]
  IN << [kind |-> "before", shape |-> sh(TRUE)], [kind |-> "after", shape |-> sh(TRUE)],
        [kind |-> "ahead", shape |-> sh(FALSE)] >>

\* re.match of the pattern at position n: group 1 as << from, to >> (to
\* excluded), None if it does not match there
MatchAt(t, n, pat) ==
  LET from == IF pat.kind = "after" THEN SkipSpaces(t, n + 3) ELSE n
      S == { a \in Alts(t, from, pat.shape) :
               \/ pat.kind = "after"
               \/ /\ MarkerAt(t, SkipSpaces(t, AltEnd(from, a)))
                  /\ pat.kind = "ahead" => Boundary(t, AltEnd(from, a)) }
      starts == IF pat.kind = "after" THEN MarkerAt(t, n)
                ELSE pat.kind = "ahead" => Boundary(t, n)
  IN IF starts /\ S # {} THEN Some(<< from, AltEnd(from, FirstAlt(S)) >>) ELSE None

\* re.search(...).group(1): from the match at the leftmost position that has one
Search(t, pat) ==
  LET at == { n \in 1..Len(t) : MatchAt(t, n, pat) # None }
      m == MatchAt(t, CHOOSE n \in at : \A h \in at : n <= h, pat)
  IN IF at = {} THEN None ELSE Some(SubSeq(t, m[1][1], m[1][2] - 1))

\* the test a pattern's match has to pass: Noon compares int(clean_num),
\* the match without its commas and its point; Namshi compares float(price_num)
Accepts(s, price_num) ==
  IF s = "noon"
  THEN LET clean_num == Without(Without(price_num, ","), ".")
       IN clean_num # <<>> /\ AllDigits(clean_num) /\ DigitsToInt(clean_num) > 50
  ELSE /\ Without(price_num, ".") # <<>> /\ AllDigits(Without(price_num, "."))
       /\ Exceeds(Float(price_num)[1], 10)

\* re.findall(r'\b(number)\b'): the matches from n on, left to right (the code
\* goes line by line; no match spans a line break, so the order is the same)
RECURSIVE FindAll(_, _, _)
FindAll(t, n, sh) ==
  IF n > Len(t) THEN <<>>
  ELSE LET S == { a \in Alts(t, n, sh) : Boundary(t, AltEnd(n, a)) }
       IN IF Boundary(t, n) /\ S # {}
          THEN << SubSeq(t, n, AltEnd(n, FirstAlt(S)) - 1) >>
                 \o FindAll(t, AltEnd(n, FirstAlt(S)), sh)
          ELSE FindAll(t, n + 1, sh)

\* the stand-alone numbers of the text that are in the reasonable range:
\* \d{1,3}(?:,\d{3})* from 100 to 50000 for Noon, \d{2,4} from 50 to 5000
\* for Namshi
Standalone(s, t) ==
  LET sh == IF s = "noon" THEN [mind |-> 1, maxd |-> 3, groups |-> TRUE, frac |-> FALSE]
            ELSE [mind |-> 2, maxd |-> 4, groups |-> FALSE, frac |-> FALSE]
      v(num) == DigitsToInt(Without(num, ","))
  IN SelectSeq(FindAll(t, 1, sh),
               LAMBDA num : IF s = "noon" THEN 100 <= v(num) /\ v(num) <= 50000
                            ELSE 50 <= v(num) /\ v(num) <= 5000)

\* Amazon: re.search(r'aed[^\d]*(\d+(?:\.\d+)?)', text.lower()).group(1): the
\* digits after the leftmost "aed" that has a digit after it, with a
\* fraction if any; None if there is no match
AedNumber(text) ==
  LET t == [j \in 1..Len(text) |-> Lower(text[j])]
      digitsAfter(n) == { j \in (n + 3)..Len(t) : IsDigit(t[j]) }
      at == { n \in 1..Len(t) : /\ At(t, n) = "a" /\ At(t, n + 1) = "e" /\ At(t, n + 2) = "d"
                                /\ digitsAfter(n) # {} }
      first == CHOOSE n \in at : \A h \in at : n <= h
      from == CHOOSE j \in digitsAfter(first) : \A h \in digitsAfter(first) : j <= h
      whole == from + DigitRun(t, from)
      to == IF At(t, whole) = "." /\ DigitRun(t, whole + 1) >= 1
            THEN whole + 1 + DigitRun(t, whole + 1) ELSE whole
  IN IF at = {} THEN None ELSE Some(SubSeq(t, from, to - 1))

\* the number of the first screen-reader text that gives one
RECURSIVE Offscreen(_)
Offscreen(texts) ==
  IF texts = <<>> THEN None
  ELSE IF AedNumber(Head(texts)) # None THEN AedNumber(Head(texts))
  ELSE Offscreen(Tail(texts))

PriceNotAvailable == << "P", "r", "i", "c", "e", " ", "n", "o", "t", " ",
                        "a", "v", "a", "i", "l", "a", "b", "l", "e" >>
\* f"AED {price_num}"
Aed(price_num) == << "A", "E", "D", " " >> \o price_num

\* the texts examined: a number with a currency marker before or after it
\* or with none, under an optional first line
PriceTexts ==
  LET nums == { << "1", ",", "2", "9", "9", ".", "0", "0" >>, << "1", "2", ".", "5", "0" >>,
                << "1", "0", ".", "5", "0" >>, << "4", "5" >>, << "5", "0" >>, << "5", "1" >>,
                << "1", "0" >>, << "1", "1" >>, << "2", "9", "9" >>,
                << "1", "2", "9", "9" >>, << "5" >> }
      markers == { << "A", "E", "D" >>, << "a", "e", "d" >>, << "dal", ".", "alef" >> }
      labels == { <<>>, << "L", "\n" >>, << "L", " ", "2", "5", "6", "\n" >> }
      gaps == { [j \in 1..n |-> " "] : n \in 0..MaxGap }
  IN { lb \o num : lb \in labels, num \in nums } \cup
     { lb \o mk \o gap \o num : lb \in labels, mk \in markers, gap \in gaps, num \in nums } \cup
     { lb \o num \o gap \o mk : lb \in labels, mk \in markers, gap \in gaps, num \in nums }

PriceTextInit ==
  /\ RunIdle
  /\ unit = "pricetext"
  /\ sut \in SiteSet
  /\ \E t \in PriceTexts, off \in BOOLEAN :
       /\ off => sut = "amazon"
       /\ inp = [full_text |-> t, offscreen |-> IF off THEN << t >> ELSE <<>>]
  /\ loc = [k |-> 1, price |-> PriceNotAvailable, price_value |-> None,
            by |-> "none", price_num |-> <<>>]
  /\ upc = IF sut = "amazon" THEN "offscreen" ELSE "patterns"
  /\ res = <<>>

\* one iteration of "for pattern in price_patterns"
TryPattern ==
  /\ unit = "pricetext" /\ upc = "patterns"
  /\ LET m == Search(inp.full_text, PricePatterns(sut)[loc.k])
         ok == m # None /\ Accepts(sut, m[1])
     IN /\ loc' = IF ok
                  THEN [loc EXCEPT !.price = Aed(m[1]),
                                   !.price_value = IF sut = "namshi" THEN Float(m[1]) ELSE @,
                                   !.by = "pattern",
                                   !.price_num = m[1]]
                  ELSE [loc EXCEPT !.k = @ + 1]
        /\ upc' = IF ok \/ loc.k = Len(PricePatterns(sut)) THEN "numbers" ELSE "patterns"
  /\ UNCHANGED << unit, sut, inp, res >>

\* "if price == 'Price not available'": the first reasonable stand-alone number
StandaloneNumber ==
  /\ unit = "pricetext" /\ upc = "numbers"
  /\ LET nums == Standalone(sut, inp.full_text)
     IN loc' = IF loc.price = PriceNotAvailable /\ nums # <<>>
               THEN [loc EXCEPT !.price = Aed(Head(nums)),
                                !.price_value = IF sut = "namshi" THEN Float(Head(nums)) ELSE @,
                                !.by = "number",
                                !.price_num = Head(nums)]
               ELSE loc
  /\ upc' = "return"
  /\ UNCHANGED << unit, sut, inp, res >>

\* Amazon's fallback over the .a-offscreen elements
ScanOffscreen ==
  /\ unit = "pricetext" /\ upc = "offscreen"
  /\ LET num == Offscreen(inp.offscreen)
     IN loc' = IF num # None
               THEN [loc EXCEPT !.price = Aed(num[1]), !.price_value = Float(num[1]),
                                !.by = "offscreen", !.price_num = num[1]]
               ELSE loc
  /\ upc' = "return"
  /\ UNCHANGED << unit, sut, inp, res >>

\* the record's price and price_value; Noon derives the value from the
\* price string at the end
ReturnPrice ==
  /\ unit = "pricetext" /\ upc = "return"
  /\ res' = [price |-> loc.price,
             price_value |-> IF sut = "noon" THEN extract_numeric_price(loc.price)
                             ELSE loc.price_value]
  /\ upc' = "done"
  /\ UNCHANGED << unit, sut, inp, loc >>

PriceTextNext ==
  \/ TryPattern /\ UNCHANGED runvars
  \/ StandaloneNumber /\ UNCHANGED runvars
  \/ ScanOffscreen /\ UNCHANGED runvars
  \/ ReturnPrice /\ UNCHANGED runvars

SpecPriceText == PriceTextInit /\ [][PriceTextNext]_vars


\* ================================================== extract_numeric_price
\* (called on its own with one argument)

\* longest argument string
MaxStr == 4

\* the arguments examined: every string of some characters up to that
\* length, and an argument that is not a string (None)
PriceArgs ==
  { [str |-> FALSE, chars |-> <<>>] } \cup
  { [str |-> TRUE, chars |-> t] :
      t \in UNION { [1..n -> {"0", "1", ".", ",", "-", "A", " "}] : n \in 0..MaxStr } }

NumericInit ==
  /\ RunIdle
  /\ unit = "numeric"
  /\ sut \in {"noon", "amazon"}
  /\ inp \in PriceArgs
  /\ loc = <<>>
  /\ upc = "call"
  /\ res = <<>>

\* the call: re.sub raises TypeError on an argument that is not a string,
\* which the handler (ValueError, AttributeError) does not catch
CallExtractNumericPrice ==
  /\ unit = "numeric" /\ upc = "call"
  /\ res' = IF inp.str THEN [raised |-> FALSE, value |-> extract_numeric_price(inp.chars)]
            ELSE [raised |-> TRUE, value |-> None]
  /\ upc' = "done"
  /\ UNCHANGED << unit, sut, inp, loc >>

\* Noon's builder when a price selector's element has this text and the text
\* passes the test of the price cascade (not empty, only digits once commas
\* and points are removed): the price string and, at the end of the builder,
\* the price_value derived from that string
NoonStructuredPrice ==
  /\ unit = "numeric" /\ upc = "call" /\ sut = "noon" /\ inp.str
  /\ LET price_text == Strip(inp.chars)
         digits == Without(Without(price_text, ","), ".")
     IN /\ digits # <<>> /\ AllDigits(digits)
        /\ res' = [raised |-> FALSE, price |-> Aed(price_text),
                   value |-> extract_numeric_price(Aed(price_text))]
  /\ upc' = "priced"
  /\ UNCHANGED << unit, sut, inp, loc >>

NumericNext ==
  \/ CallExtractNumericPrice /\ UNCHANGED runvars
  \/ NoonStructuredPrice /\ UNCHANGED runvars

SpecNumeric == NumericInit /\ [][NumericNext]_vars


\* ================================================== parse_items_from_file
\* (and the two other places a SearchItem is made: main's --single argument
\*  and the unified main's command line)

\* most lines of an items file
MaxFile == 2

\* str.split(',')
RECURSIVE Split(_)
Split(t) ==
  LET commas == { n \in 1..Len(t) : t[n] = "," }
      first == CHOOSE n \in commas : \A h \in commas : n <= h
  IN IF commas = {} THEN << t >>
     ELSE << SubSeq(t, 1, first - 1) >> \o Split(SubSeq(t, first + 1, Len(t)))

\* a line handled with the parts left unstripped
ParseLine_RawParts(line, k) ==
  LET l == Strip(line)
      parts == Split(l)
  IN IF l = <<>> \/ Head(l) = "#" THEN None
     ELSE IF Len(parts) >= 2
     THEN Some([name |-> parts[1], max_price |-> Float(parts[2]), line |-> k])
     ELSE Some([name |-> l, max_price |-> None, line |-> k])

\* a comment line taken as a name
ParseLine_CommentsKept(line, k) ==
  LET l == Strip(line)
      parts == [j \in 1..Len(Split(l)) |-> Strip(Split(l)[j])]
  IN IF l = <<>> THEN None
     ELSE IF Len(parts) >= 2
     THEN Some([name |-> parts[1], max_price |-> Float(parts[2]), line |-> k])
     ELSE Some([name |-> l, max_price |-> None, line |-> k])

\* a line whose price does not parse left out
ParseLine_SkipInvalid(line, k) ==
  LET l == Strip(line)
      parts == [j \in 1..Len(Split(l)) |-> Strip(Split(l)[j])]
  IN IF l = <<>> \/ Head(l) = "#" THEN None
     ELSE IF Len(parts) >= 2
     THEN IF Float(parts[2]) = None THEN None
          ELSE Some([name |-> parts[1], max_price |-> Float(parts[2]), line |-> k])
     ELSE Some([name |-> l, max_price |-> None, line |-> k])

\* one iteration of the loop over the lines: the SearchItem appended for
\* line number k (None for an empty line or a comment); a price that float()
\* rejects gives SearchItem(name), whose max_price is None
ParseLine(line, k) ==
  LET l == Strip(line)
      parts == [j \in 1..Len(Split(l)) |-> Strip(Split(l)[j])]
  IN IF l = <<>> \/ Head(l) = "#" THEN None
     ELSE IF Len(parts) >= 2
     THEN Some([name |-> parts[1], max_price |-> Float(parts[2]), line |-> k])
     ELSE Some([name |-> l, max_price |-> None, line |-> k])

\* the lines examined, each with what it was made of: a name and a price
\* text (with the price's value in hundredths, None if it is no number)
\* around a comma, with or without blanks and a third field, or with nothing
\* before the comma; a name alone, one of them holding "#"; comments; blank lines
FileLines ==
  LET names == { << "L" >>, << "L", " ", "p" >> }
      prices == { [chars |-> << "1", "5", "0" >>, value |-> Some(15000)],
                  [chars |-> << "1", ".", "5" >>, value |-> Some(150)],
                  [chars |-> << "-", "5" >>, value |-> Some(-500)],
                  [chars |-> << "L" >>, value |-> None],
                  [chars |-> << "1", ".", "5", ".", "0" >>, value |-> None],
                  [chars |-> <<>>, value |-> None] }
      pads == { <<>>, << " " >> }
  IN { [form |-> "pair", name |-> nm, price |-> pr,
        line |-> pd \o nm \o pd \o << "," >> \o pd \o pr.chars \o pd \o ex \o << "\n" >>] :
         nm \in names, pr \in prices, pd \in pads, ex \in { <<>>, << ",", "9" >> } } \cup
     { [form |-> "pair", name |-> <<>>, price |-> pr,
        line |-> << "," >> \o pr.chars \o << "\n" >>] : pr \in prices } \cup
     { [form |-> "name", name |-> nm, price |-> [chars |-> <<>>, value |-> None],
        line |-> pd \o nm \o pd \o << "\n" >>] :
         nm \in names \cup { << "L", "#" >> }, pd \in pads } \cup
     { [form |-> "skip", name |-> <<>>, price |-> [chars |-> <<>>, value |-> None],
        line |-> l] : l \in { << "#", "L", ",", "5", "\n" >>, << " ", "#", "L", "\n" >>,
                              << " ", "\n" >>, << "\n" >> } }

ParseInit ==
  /\ RunIdle
  /\ unit = "parse"
  /\ sut \in SiteSet
  /\ inp \in UNION { [1..n -> FileLines] : n \in 0..MaxFile }
  /\ loc = [k |-> 1, items |-> <<>>]
  /\ upc = "lines"
  /\ res = <<>>

\* open() raises (FileNotFoundError or another exception): [] is returned
OpenFails ==
  /\ unit = "parse" /\ upc = "lines" /\ loc.k = 1
  /\ res' = [failed |-> TRUE, items |-> <<>>]
  /\ upc' = "done"
  /\ UNCHANGED << unit, sut, inp, loc >>

\* one iteration of "for line_num, line in enumerate(lines, 1)"
ReadLine ==
  /\ unit = "parse" /\ upc = "lines" /\ loc.k <= Len(inp)
  /\ LET item == ParseLine(inp[loc.k].line, loc.k)
     IN loc' = [k |-> loc.k + 1,
                items |-> IF item = None THEN loc.items ELSE Append(loc.items, item[1])]
  /\ UNCHANGED << unit, sut, inp, upc, res >>

\* "return items"
ReturnItems ==
  /\ unit = "parse" /\ upc = "lines" /\ loc.k > Len(inp)
  /\ res' = [failed |-> FALSE, items |-> loc.items]
  /\ upc' = "done"
  /\ UNCHANGED << unit, sut, inp, loc >>

\* the item main makes of a non-empty --single argument: with a comma, the
\* stripped first part and float() of the second (no max_price when float()
\* rejects it); without one, the argument as it is
SingleItem(arg) ==
  LET parts == [j \in 1..Len(Split(arg)) |-> Strip(Split(arg)[j])]
  IN IF Len(parts) >= 2
     THEN [name |-> parts[1], max_price |-> Float(parts[2]), line |-> 1]
     ELSE [name |-> arg, max_price |-> None, line |-> 1]

\* "if args.single": the one line, without its line end, given after --single
ParseSingle ==
  /\ unit = "parse" /\ upc = "lines" /\ loc.k = 1 /\ Len(inp) = 1
  /\ LET arg == SubSeq(inp[1].line, 1, Len(inp[1].line) - 1)
     IN /\ arg # <<>>
        /\ res' = [failed |-> FALSE, items |-> << SingleItem(arg) >>]
  /\ upc' = "single"
  /\ UNCHANGED << unit, sut, inp, loc >>

\* the item the unified main makes of its command line: search_term as it
\* is, max_price the float() of the --max-price text if one is given
UnifiedItem(search_term, given, text) ==
  [name |-> search_term, max_price |-> IF given THEN Float(text) ELSE None, line |-> 1]

\* the unified main's parse_args(): the name is the search_term and the price
\* text follows --max-price; argparse exits on a text float() rejects
ParseUnified ==
  /\ unit = "parse" /\ upc = "lines" /\ loc.k = 1 /\ Len(inp) = 1
  /\ inp[1].form # "skip"
  /\ LET given == inp[1].form = "pair"
     IN res' = IF given /\ Float(inp[1].price.chars) = None
               THEN [failed |-> TRUE, items |-> <<>>]
               ELSE [failed |-> FALSE,
                     items |-> << UnifiedItem(inp[1].name, given, inp[1].price.chars) >>]
  /\ upc' = "unified"
  /\ UNCHANGED << unit, sut, inp, loc >>

ParseNext ==
  \/ OpenFails /\ UNCHANGED runvars
  \/ ReadLine /\ UNCHANGED runvars
  \/ ReturnItems /\ UNCHANGED runvars
  \/ ParseSingle /\ UNCHANGED runvars
  \/ ParseUnified /\ UNCHANGED runvars

SpecParse == ParseInit /\ [][ParseNext]_vars

\* ------------------------------------------------------------- properties
Terminated == pc \in {"done", "killed"}

Positive(mp) == mp # None /\ mp[1] > 0

InProducts(prods, k) == \E j \in 1..Len(prods) : prods[j].title = k

\* what search_item returns for a candidate list, computed in one go
SearchItemResult(s, pp, mp) ==
  LET cands == Candidates(s, pp)
      R[k \in 0..Len(cands)] ==
        IF k = 0 THEN <<>> ELSE FilterStep(R[k - 1], cands[k], k, mp)
  IN R[Len(cands)]

PricesWithin(prods, mp) ==
  \A j \in 1..Len(prods) :
    prods[j].price_value # None => prods[j].price_value[1] <= mp[1]

\* C1: under a positive max_price every record in the list search_item
\* builds and returns that has a numeric price_value has price_value <=
\* max_price.
C1_PriceWithinCeiling ==
  /\ (pc = "extract" /\ Positive(max_price)) => PricesWithin(products, max_price)
  /\ \A k \in DOMAIN all_results :
       Positive(all_results[k].max_price)
         => PricesWithin(all_results[k].products, all_results[k].max_price)

\* a priced record was kept and a dearer one was dropped under a positive ceiling
C1_Witness ==
  /\ pc = "extract" /\ Positive(max_price)
  /\ \E j \in 1..Len(products) : Truthy(products[j].price_value)
  /\ \E k \in 1..i : /\ potential_products[k].kind = "record"
                     /\ potential_products[k].price_value # None
                     /\ potential_products[k].price_value[1] > max_price[1]

\* C2: if max_price is present and a built record's price_value is present
\* and greater than max_price, the record is not in search_item's list.
C2_OverCeilingDropped ==
  pc = "extract" =>
    \A k \in 1..i :
      ( /\ potential_products[k].kind = "record"
        /\ max_price # None
        /\ potential_products[k].price_value # None
        /\ potential_products[k].price_value[1] > max_price[1] )
      => ~InProducts(products, k)

HadError(s) ==
  \/ runs[s].status # "ok"
  \/ \E k \in 1..Len(Candidates(s, runs[s].potential_products)) :
       runs[s].potential_products[k].kind = "error"

\* C3 as stated: in search_all_sites any error in a source (driver setup,
\* page load, locating, building a record) leaves that source with an empty
\* product list.
C3_AnyErrorGivesEmpty ==
  (mode = "all" /\ pc = "save") =>
    \A s \in DOMAIN all_results : HadError(s) => all_results[s].products = <<>>

\* C3 amended: in search_all_sites a driver setup failure or an exception
\* reaching search_item's outer handler leaves that source with an empty
\* product list, an error while building one record only skips that
\* candidate, no such error aborts the session, and the returned mapping
\* has the keys noon, namshi and amazon with the normal results for the
\* sources that did not fail.
C3_FailureIsolation ==
  /\ (mode = "all" /\ pc = "killed") => interrupted
  /\ (mode = "all" /\ pc = "save") =>
       /\ DOMAIN all_results = SiteSet
       /\ DOMAIN runs = SiteSet
       /\ \A s \in SiteSet :
            /\ runs[s].status # "ok" => all_results[s].products = <<>>
            /\ runs[s].status = "ok" =>
                 all_results[s].products =
                   SearchItemResult(s, runs[s].potential_products, all_results[s].max_price)

\* Noon failed, Namshi met a record-building error and still returned records
C3_Witness ==
  /\ mode = "all" /\ pc = "save"
  /\ "noon" \in DOMAIN runs /\ runs["noon"].status # "ok"
  /\ "namshi" \in DOMAIN runs /\ runs["namshi"].status = "ok"
  /\ HadError("namshi")
  /\ all_results["namshi"].products # <<>>

\* C4: when a KeyboardInterrupt arrives during a step of a multi-source
\* search or of a batch, the results accumulated for the sources or terms
\* finished before it are returned or saved, not discarded.
C4_PartialResultsKept ==
  [][ (interrupted' /\ ~interrupted /\ pc \in {"setup", "get", "extract", "sleep"}
         /\ mode \in {"all", "batch"})
      => \A k \in DOMAIN all_results :
           all_results[k].products # <<>>
             => /\ saved' # None
                /\ k \in DOMAIN saved'[1]
                /\ Len(saved'[1][k].products) = Len(all_results[k].products) ]_vars

\* C5: at the end of every run the driver created for it is closed, on
\* every path out of the run.
C5_DriverClosedAtEnd ==
  Terminated => \A s \in SiteSet : driver[s] # "open"

\* C6: in the saved output within_budget is set only when price_value and
\* max_price both exist, and whenever both exist it equals
\* (price_value <= max_price).
C6_WithinBudgetSet ==
  saved # None =>
    \A k \in DOMAIN saved[1] :
      \A j \in 1..Len(saved[1][k].products) :
        LET p == saved[1][k].products[j]
            mp == saved[1][k].max_price_filter
        IN /\ p.within_budget # None => (p.price_value # None /\ mp # None)
           /\ (p.price_value # None /\ mp # None)
                => p.within_budget = Some(p.price_value[1] <= mp[1])

C8_Sequential ==
  /\ Cardinality({s \in SiteSet : driver[s] = "open"}) <= 1
  /\ mode = "all" =>
       \A s \in SiteSet :
         /\ SiteIndex(s) < SiteIndex(site) => (s \in DOMAIN all_results /\ driver[s] # "open")
         /\ SiteIndex(s) > SiteIndex(site) => (s \notin DOMAIN all_results /\ driver[s] = "none")
  /\ mode = "batch" => \A j \in 1..(idx - 1) : items[j].name \in DOMAIN all_results

\* Amazon's driver is open after Noon's and Namshi's were opened and closed
C8_Witness ==
  /\ mode = "all" /\ site = "amazon" /\ pc = "extract"
  /\ driver["amazon"] = "open"
  /\ driver["noon"] = "closed" /\ driver["namshi"] = "closed"

RunCount == IF mode = "all" THEN 3 ELSE Len(items)

\* C9 as stated: no delay is performed after the final source or the final
\* batch item.
C9_NoDelayAfterLast ==
  \A j \in 1..Len(slept) : slept[j] < RunCount

UpTo(m) == [k \in 1..m |-> k]

\* C9 amended: a delay follows every batch item but the last, and every
\* source of search_all_sites including the last one (Amazon).
C9_PacingDelays ==
  /\ mode = "batch" => (idx <= Len(items) /\ slept = UpTo(idx - 1))
  /\ mode = "only" => slept = <<>>
  /\ mode = "all" =>
       /\ slept \in {UpTo(SiteIndex(site) - 1), UpTo(SiteIndex(site))}
       /\ pc \in {"setup", "get", "extract", "close", "sleep"} => slept = UpTo(SiteIndex(site) - 1)
       /\ pc = "save" => slept = UpTo(3)

\* a batch of several items is over: one delay per item but the last
C9_Witness ==
  /\ mode = "batch" /\ pc = "save"
  /\ Len(items) >= 2 /\ idx = Len(items)
  /\ slept = UpTo(Len(items) - 1)

\* C10: search_item never processes, and so never returns, more candidates
\* than the source's maximum: 10 for Amazon and Namshi, 5 for Noon.
C10_CandidateCap ==
  /\ pc = "extract" => (i <= Cap(site) /\ Len(products) <= Cap(site))
  /\ \A k \in DOMAIN all_results :
       Len(all_results[k].products) <= Cap(IF mode = "batch" THEN site ELSE k)

\* a selector gave more elements than the cap and the loop stopped at the cap
C10_Witness ==
  /\ pc = "extract"
  /\ Len(potential_products) > Cap(site)
  /\ i = Cap(site)

\* ---------------------------------------------- properties of the locator

NoPlausibleSelector == \A j \in DOMAIN loc.hist : loc.hist[j] # "plausible"

\* C11: the container selectors are tried in their declared order; the
\* accepted selector is the first one that yields an element passing the
\* content plausibility filter, no selector after it is tried, and a selector
\* none of whose elements is plausible is not accepted
C11_FirstPlausibleSelectorAccepted ==
  (unit = "locate" /\ upc \in {"fallback", "done"}) =>
    /\ loc.accepted # 0 =>
         /\ Len(loc.hist) = loc.accepted
         /\ loc.hist[loc.accepted] = "plausible"
         /\ \A j \in 1..(loc.accepted - 1) : loc.hist[j] # "plausible"
    /\ loc.accepted = 0 => NoPlausibleSelector

\* C12: when no declared selector yields a plausible element the generic div
\* scan is run, keeps only divs passing its text test and stops at its cap;
\* it is not run when a declared selector was accepted
C12_GenericScanWhenNoSelector ==
  (unit = "locate" /\ upc = "done") =>
    /\ NoPlausibleSelector => loc.generic
    /\ loc.accepted # 0 => ~loc.generic
    /\ loc.generic =>
         /\ Len(loc.potential_products) <= Cap(sut)
         /\ \A j \in DOMAIN loc.potential_products :
              /\ loc.potential_products[j].from = 0
              /\ DivPlausible(sut, loc.potential_products[j].elem, inp)

\* ---------------------------------------- properties of the record builder

TitleCascadeEnded == unit = "build" /\ upc = "lines"

\* C13 as stated: the title cascade's result is the text of the first
\* strategy whose text is non-empty and long enough, and the cascade stops there
C13_FirstValidText ==
  TitleCascadeEnded =>
    /\ loc.broke =>
         /\ loc.title = Some(Val("text", loc.k, loc.title[1].len))
         /\ loc.hist[loc.k] = "text"
    /\ (\E j \in DOMAIN loc.hist : loc.hist[j] = "text") => loc.broke

\* C13 (amended): the title strategies are tried in their declared order;
\* the cascade's result is the value of the first strategy whose value is
\* non-empty and longer than the scraper's minimum, a strategy's value being
\* its stripped text or, on Noon and Namshi, the title attribute when that
\* text is empty; no strategy after it is consulted
C13_FirstValidValue ==
  TitleCascadeEnded =>
    /\ loc.broke =>
         /\ Len(loc.hist) = loc.k
         /\ loc.hist[loc.k] \in {"text", "attr"}
         /\ loc.hist[loc.k] = "attr" => sut # "amazon"
         /\ Filled(loc.title)
         /\ loc.title[1].src = loc.hist[loc.k] /\ loc.title[1].k = loc.k
         /\ loc.title[1].len > MinLen(sut, "title")
         /\ \A j \in 1..(loc.k - 1) : loc.hist[j] \notin {"text", "attr"}
    /\ (\E j \in DOMAIN loc.hist : loc.hist[j] \in {"text", "attr"}) => loc.broke

C13_Witness ==
  /\ TitleCascadeEnded /\ loc.broke /\ loc.k > 1
  /\ loc.title[1].src = "attr"
  /\ \E j \in 1..(loc.k - 1) : loc.hist[j] = "none"

\* C14: when no title strategy gave a non-empty, long enough text the title
\* is the first qualifying line of the full text or else "Unknown Product";
\* a price nothing recovered is "Price not available" with no numeric value
C14_FallbacksAndDefaults ==
  [][(unit = "build") =>
       /\ (upc = "lines" /\ ~loc.broke /\ upc' = "price")
            => loc'.title[1].src \in {"line", "unknown"}
       /\ (upc = "rest" /\ loc.price = NoPrice /\ upc' = "done" /\ res'.kind = "record")
            => /\ res'.price = [text |-> "Price not available", suffix |-> FALSE]
               /\ res'.price_value = None]_vars

\* C15: an attempt of a brand, title or price cascade that raises counts as
\* no match: the field keeps its value, the next strategy of the field is
\* tried, the builder goes on to the other fields and nothing is returned yet
C15_RaiseIsNoMatch ==
  [][(/\ unit = "build" /\ upc \in {"brand", "title", "price"}
      /\ Len(loc'.hist) = loc.k /\ loc'.hist[loc.k] = "raise")
       => /\ loc'[upc] = loc[upc]
          /\ res' = res /\ upc' # "done"
          /\ loc.k < NField(sut, upc)
               => upc' = upc /\ loc'.k = loc.k + 1]_vars

C15_Witness ==
  /\ unit = "build" /\ upc = "done" /\ res.kind = "record"
  /\ loc.broke /\ loc.k > 1 /\ loc.hist[1] = "raise"
  /\ res.price_value # None

\* ------------------------------------ properties of the free-text price fallback

\* C16: a candidate whose only price text is "AED 1,299.00", with no
\* structured price element, gets the price_value 1299.00 in each scraper
C16_GroupedPriceRecovered ==
  (/\ unit = "pricetext" /\ upc = "done"
   /\ inp.full_text = << "A", "E", "D", " ", "1", ",", "2", "9", "9", ".", "0", "0" >>)
    => /\ res.price_value # None
       /\ ~res.price_value[1].neg
       /\ res.price_value[1].mant * 100 = 129900 * Pow10(res.price_value[1].scale)

\* C17: a currency pattern's match is taken as the price only if its numeric
\* value is above the floor (10 for Namshi, 50 for Noon)
C17_FloorOnPatternMatch ==
  (unit = "pricetext" /\ loc.by = "pattern") =>
    Exceeds(Float(Without(loc.price_num, ","))[1],
            IF sut = "noon" THEN 50 ELSE 10)

\* ------------------------------------------ properties of extract_numeric_price

\* what is left of a string without every character but digits and points
DigitsAndPoints(t) == SelectSeq(t, LAMBDA c : IsDigit(c) \/ c = ".")
\* a decimal number: digits, or digits around one point, at least one digit
IsDecimal(c) ==
  \/ c # <<>> /\ AllDigits(c)
  \/ \E n \in 1..Len(c) :
       /\ c[n] = "." /\ Len(c) > 1
       /\ AllDigits(SubSeq(c, 1, n - 1)) /\ AllDigits(SubSeq(c, n + 1, Len(c)))

\* C18: for a string argument extract_numeric_price does not raise and gives
\* None or a non-negative number; it gives None exactly when the string,
\* without every character but digits, "." and "," and then without the
\* commas, is empty or is not a decimal number
C18_NumericPriceTotal ==
  (unit = "numeric" /\ upc = "done" /\ inp.str) =>
    /\ ~res.raised
    /\ res.value = None <=> ~IsDecimal(DigitsAndPoints(inp.chars))
    /\ res.value # None => ~res.value[1].neg

C18_Witness ==
  /\ unit = "numeric" /\ upc = "done" /\ inp.str
  /\ res.value = None
  /\ \E n \in 1..Len(inp.chars) : inp.chars[n] = ","
  /\ \E n \in 1..Len(inp.chars) : IsDigit(inp.chars[n])

\* ------------------------------------------ properties of parse_items_from_file

FileParsed == unit = "parse" /\ upc = "done" /\ ~res.failed
\* a number in hundredths
Hundredths(a) == (IF a.neg THEN -1 ELSE 1) * ((a.mant * 100) \div Pow10(a.scale))
\* the items returned for line k
ItemsOf(k) == { res.items[j] : j \in { h \in DOMAIN res.items : res.items[h].line = k } }

\* C19: a line "name,price" whose price is a number gives an item whose name
\* is the trimmed text before the first comma and whose max_price is that number
C19_NameAndCeiling ==
  FileParsed =>
    \A k \in DOMAIN inp :
      (inp[k].form = "pair" /\ inp[k].price.value # None) =>
        \E it \in ItemsOf(k) :
          /\ ItemsOf(k) = {it}
          /\ it.name = inp[k].name
          /\ it.max_price # None
          /\ Hundredths(it.max_price[1]) = inp[k].price.value[1]

C19_Witness ==
  /\ FileParsed
  /\ \E k \in DOMAIN inp :
       /\ inp[k].form = "pair" /\ inp[k].price.value = Some(15000)
       /\ inp[k].name = << "L", " ", "p" >>
       /\ Head(inp[k].line) = " "
       /\ ItemsOf(k) # {}

\* C20: a line "name,x" whose x is no number gives an item with the name and
\* no max_price; no error is raised and the lines after it are still parsed
C20_InvalidPriceKeepsItem ==
  FileParsed =>
    \A k \in DOMAIN inp :
      (inp[k].form = "pair" /\ inp[k].price.value = None) =>
        /\ \E it \in ItemsOf(k) :
             ItemsOf(k) = {it} /\ it.name = inp[k].name /\ it.max_price = None
        /\ \A h \in (k + 1)..Len(inp) : inp[h].form # "skip" => ItemsOf(h) # {}

C20_Witness ==
  /\ FileParsed /\ Len(inp) > 1
  /\ inp[1].form = "pair" /\ inp[1].price.chars = << "L" >>
  /\ inp[2].form = "pair" /\ inp[2].price.value # None
  /\ Len(res.items) = Len(inp)

\* a line that is blank or whose first character after the blanks is "#"
Ignored(line) ==
  \/ \A n \in 1..Len(line) : IsSpace(line[n])
  \/ \E n \in 1..Len(line) : line[n] = "#" /\ \A h \in 1..(n - 1) : IsSpace(line[h])

\* C21: parse_items_from_file gives exactly one item for each line that is
\* neither blank nor a "#" comment after trimming, in the order of the file,
\* and no item for a blank line or a comment line
C21_OneItemPerLine ==
  FileParsed =>
    /\ \A k \in DOMAIN inp :
         Cardinality({ j \in DOMAIN res.items : res.items[j].line = k })
           = IF Ignored(inp[k].line) THEN 0 ELSE 1
    /\ \A j \in DOMAIN res.items :
         /\ res.items[j].line \in DOMAIN inp
         /\ \A h \in 1..(j - 1) : res.items[h].line < res.items[j].line

\* a file of a comment line and then a name holding "#": one item, for the
\* second line
C21_Witness ==
  /\ FileParsed /\ Len(inp) = 2
  /\ inp[1].line = << " ", "#", "L", "\n" >>
  /\ inp[2].line = << "L", "#", "\n" >>
  /\ Len(res.items) = 1 /\ res.items[1].line = 2

\* the items main hands to search_item: those of the file, of --single or of
\* the unified command line
ItemsMade == unit = "parse" /\ upc \in {"done", "single", "unified"} /\ ~res.failed

\* C22: every search item handed to search_item, from the items file, from
\* --single or from the unified command line, has a non-empty name
C22_NonEmptyTerm ==
  ItemsMade => \A j \in DOMAIN res.items : res.items[j].name # <<>>

\* C23: every search item made from the items file, from --single or from
\* the unified --max-price has no max_price or a positive one
C23_PositiveCeiling ==
  ItemsMade =>
    \A j \in DOMAIN res.items :
      res.items[j].max_price # None =>
        (~res.items[j].max_price[1].neg /\ res.items[j].max_price[1].mant > 0)

\* C24: a candidate whose stripped text is shorter than the scraper's
\* minimum (20 for Amazon, 10 for Namshi and Noon) gives no record: the
\* builder returns None for it at once, without an exception
C24_ShortTextSkipped ==
  [][(/\ unit = "build" /\ upc = "text" /\ upc' # "text"
      /\ upc' = "done" => res'.why # "raises"
      /\ loc'.text < (IF sut = "amazon" THEN 20 ELSE 10))
       => /\ upc' = "done"
          /\ res' = [kind |-> "none", why |-> "short"]]_vars

\* Amazon's builder returned None for a text of 19 characters
C24_Witness ==
  /\ unit = "build" /\ sut = "amazon" /\ upc = "done"
  /\ res = [kind |-> "none", why |-> "short"]
  /\ loc.text = 19

\* ------------------------------------------------ properties of the record's url

\* a link attempt that gave a link the scraper takes for a product link
Yields(s, o) == o.kind = "found" /\ o.href # None /\ (s = "noon" \/ o.href[1].marked)
\* the element itself gave one (Noon)
SelfYields == sut = "noon" /\ res.isLink /\ res.href # None /\ res.href[1].marked
\* a url that is complete: the search url, an http href, or a rooted href
\* behind the site's host
Absolute(u) == u.base = "search" \/ u.form = "http" \/ (u.form = "path" /\ u.host)

\* C25: the record's url is the search url when no link strategy gives a
\* product link, and otherwise an absolute link taken from the candidate
C25_UrlDefaultOrLink ==
  (unit = "link" /\ upc = "done") =>
    IF SelfYields \/ \E j \in DOMAIN loc.hist : Yields(sut, loc.hist[j])
    THEN res.url.base = "href" /\ Absolute(res.url)
    ELSE res.url = SearchUrl

\* ----------------------------------------------- properties of the title cleaning

\* the characters of a text that are not whitespace
NonSpace(t) == SelectSeq(t, LAMBDA c : ~IsSpace(c))
\* the length of a text with each inner run of whitespace counted once and
\* the whitespace around it not at all
CleanLen(t) ==
  Len(NonSpace(t))
    + Cardinality({ j \in 2..Len(t) : /\ IsSpace(t[j]) /\ ~IsSpace(t[j - 1])
                                       /\ \E h \in (j + 1)..Len(t) : ~IsSpace(t[h]) })

\* C26: a record's title has each run of whitespace as a single blank and,
\* when that makes it longer than the scraper's maximum (150 for Amazon, 100
\* for Namshi and Noon), is its first maximum characters and then "..."; so
\* no title is longer than the maximum plus 3
C26_TitleNormalized ==
  (unit = "title" /\ upc = "done") =>
    LET max == IF sut = "amazon" THEN 150 ELSE 100
        body == IF CleanLen(inp) > max THEN SubSeq(res, 1, max) ELSE res
    IN /\ Len(res) <= max + 3
       /\ CleanLen(inp) > max =>
            (Len(res) = max + 3 /\ SubSeq(res, max + 1, max + 3) = << ".", ".", "." >>)
       /\ CleanLen(inp) <= max => (Len(res) = CleanLen(inp) /\ NonSpace(res) = NonSpace(inp))
       /\ NonSpace(body) = SubSeq(NonSpace(inp), 1, Len(NonSpace(body)))
       /\ \A j \in DOMAIN body :
            IsSpace(body[j]) => (body[j] = " " /\ j > 1 /\ ~IsSpace(body[j - 1]))

\* an Amazon title of 151 characters once its double blanks are collapsed
C26_Witness ==
  /\ unit = "title" /\ upc = "done" /\ sut = "amazon"
  /\ Len(inp) > 160 /\ CleanLen(inp) = 151
  /\ Len(res) = 153

\* ------------------------------------------------------ properties of the runs

\* C27: when the loop of a batch is over there is one result entry for each
\* search item of the batch, holding what that item's search stored
C27_OneEntryPerItem ==
  (mode = "batch" /\ pc = "save") =>
    /\ Cardinality(DOMAIN all_results) = Len(items)
    /\ \A j \in 1..Len(items) :
         /\ items[j].name \in DOMAIN all_results
         /\ all_results[items[j].name].max_price = items[j].max_price

\* C28: the candidates Noon's search_item goes on with all come from one
\* source, a single container selector or the generic scan (source 0)
C28_SingleSource ==
  (unit = "locate" /\ sut = "noon" /\ upc = "done") =>
    \A a, b \in DOMAIN res.potential_products :
      res.potential_products[a].from = res.potential_products[b].from

\* C29: in a record price_value is absent exactly when the price shown is
\* "Price not available"; here for the records Noon builds from a price
\* element whose text passed the cascade's test
C29_ValueIffPriceShown ==
  (unit = "numeric" /\ upc = "priced") =>
    (res.value = None <=> res.price = PriceNotAvailable)

\* C30: in what is saved, per site or unified, the within_budget of a product
\* is never false: it is unset or true
C30_NeverOverBudgetSaved ==
  saved # None =>
    \A k \in DOMAIN saved[1] :
      \A j \in 1..Len(saved[1][k].products) :
        saved[1][k].products[j].within_budget # Some(FALSE)

\* the unified output holds a product marked within budget for a source where
\* a dearer candidate was dropped
C30_Witness ==
  /\ mode = "all" /\ saved # None
  /\ \E k \in DOMAIN saved[1] :
       /\ \E j \in 1..Len(saved[1][k].products) :
            saved[1][k].products[j].within_budget = Some(TRUE)
       /\ \E j \in 1..Len(Candidates(k, runs[k].potential_products)) :
            /\ runs[k].potential_products[j].kind = "record"
            /\ runs[k].potential_products[j].price_value # None
            /\ runs[k].potential_products[j].price_value[1] > saved[1][k].max_price_filter[1]
====
